---- MODULE Spec2Model ----
(***************************************************************************)
(* Model of the sensor ingestion pipeline: the rotating CSV Record Store   *)
(* (src/logger.py), the TCP server that feeds it (src/server/server.py)    *)
(* and the sending client (src/network/client.py).                         *)
(*                                                                         *)
(* Every statement of Logger that touches shared state is one step of the  *)
(* calling thread, so that the handler threads the server spawns can       *)
(* interleave exactly where CPython can switch threads.  Thread 0 is the   *)
(* single-threaded caller (the GUI / main thread); thread c >= 1 is the    *)
(* handler thread of connection c.                                         *)
(*                                                                         *)
(* Time is counted in whole seconds since 2024-01-01T00:00:00.             *)
(***************************************************************************)
EXTENDS Integers, Sequences, FiniteSets, TLC

\* ------------------------------------------------------------------ bounds
MaxConns == 2        \* connections (and handler threads) the server accepts
MaxAppends == 4      \* log_reading calls made by the single-threaded caller
MaxSeconds == 1      \* one-second clock ticks within a day
MaxDays == 2         \* one-day clock ticks
MaxFaults == 2       \* writes to the Active Segment that fail

\* --------------------------------------------------------------- constants
SecondsPerHour == 3600
SecondsPerDay == 86400
HeaderBytes == 32
StampBytes == 19
MicroBytes == 7

Main == 0
Conns == 1..MaxConns
Threads == 0..MaxConns

\* --------------------------------------------------------------- datetimes
\* A datetime is [sec, usec]: seconds since 2024-01-01T00:00:00 and microseconds.
Datetime(s, u) == [sec |-> s, usec |-> u]

\* str(datetime), which csv.writer applies to the timestamp column: the
\* fraction is printed only when the microsecond field is not zero.
StrDatetime(ts) ==
    IF ts.usec = 0 THEN [sec |-> ts.sec, frac |-> <<>>]
                   ELSE [sec |-> ts.sec, frac |-> <<ts.usec>>]

\* datetime.strptime(text, "%Y-%m-%d %H:%M:%S.%f"): the ".%f" part is
\* required; <<>> stands for the ValueError.
Strptime(text) ==
    IF "frac" \in DOMAIN text /\ text.frac # <<>>
    THEN <<Datetime(text.sec, text.frac[1])>>
    ELSE <<>>

\* A str cell of a CSV row, as csv.writer writes it and csv.reader reads it back.
Str(s) == [str |-> s]

\* repr(float), which csv.writer applies to the value column, and float(text);
\* <<>> stands for the ValueError.
ReprFloat(v) == [float |-> v]
ParseFloat(text) == IF "float" \in DOMAIN text THEN <<text.float>> ELSE <<>>

\* ------------------------------------------------------------------ readings
Reading(ts, sid, v, u) == [timestamp |-> ts, sensor_id |-> sid, value |-> v, unit |-> u]

\* 2024-01-01T10:00:00 and 2024-01-01T10:00:00.500000
TsWhole == Datetime(36000, 0)
TsFrac == Datetime(36000, 500000)

\* The readings the single-threaded caller appends.
InputReadings ==
    { Reading(TsWhole, "s1", 23, "C"),
      Reading(TsFrac, "s2", 40, "C") }

HEADER == <<Str("timestamp"), Str("sensor_id"), Str("value"), Str("unit")>>

\* The row csv.writer writes for a buffer entry (timestamp, sensor_id, value, unit).
WriteRow(entry) ==
    <<StrDatetime(entry.timestamp), Str(entry.sensor_id), ReprFloat(entry.value),
      Str(entry.unit)>>

\* Bytes of a row on disk: the timestamp text, a two-character sensor id, a
\* four-character value, a one-character unit, three commas and "\r\n".
RowBytes(row) ==
    IF row = HEADER THEN HeaderBytes
    ELSE StampBytes + (IF StrDatetime(Datetime(0, 0)).frac = row[1].frac THEN 0 ELSE MicroBytes) + 12

RECURSIVE FileBytes(_)
FileBytes(rows) ==
    IF rows = <<>> THEN 0 ELSE RowBytes(Head(rows)) + FileBytes(Tail(rows))

\* ------------------------------------------------------------ configuration
\* config.json: buffer_size, rotate_every_hours, max_size (max_size_mb given
\* in bytes, i.e. max_size_mb * 1024 * 1024), rotate_after_lines, retention_days.
\* A threshold of 0 is falsy and switches its rotation predicate off.
Config(bs, hours, bytes, lines, days) ==
    [buffer_size |-> bs, rotate_every_hours |-> hours, max_size_bytes |-> bytes,
     rotate_after_lines |-> lines, retention_days |-> days]

Configs ==
    { Config(1, 0, 0, 1, 1),
      Config(1, 0, 0, 2, 1),
      Config(2, 0, 0, 3, 1),
      Config(3, 0, 0, 2, 1),
      Config(2, 24, 0, 0, 1),
      Config(1, 0, 90, 0, 1),
      Config(3, 0, 0, 0, 1) }

\* The configurations the server's store runs with.
NetConfigs == { Config(1, 0, 0, 0, 1), Config(2, 0, 0, 2, 1) }

\* ------------------------------------------------------------------- state
VARIABLES
    cfg,                \* the configuration read by Logger.__init__
    clock,              \* datetime.now(), in seconds
    buffer,             \* Logger.buffer
    current_file,       \* Logger.current_file / current_writer: <<>> is None,
                        \* else <<[name, pending]>> (pending: rows written to the
                        \* file object and not yet flushed to disk)
    current_filename,   \* Logger.current_filename
    last_rotation_time, \* Logger.last_rotation_time
    line_count,         \* Logger.line_count
    log_dir,            \* log_dir/*.csv: file name -> [rows, ctime]
    archive_dir,        \* log_dir/archive/*.zip: archive name -> [arcname, rows, ctime]
    pc,                 \* per thread: the statement it executes next
    it,                 \* per thread: index of the for loop of _flush_buffer
    flushRet,           \* per thread: where _flush_buffer returns to
    stopRet,            \* per thread: where stop returns to
    outcome,            \* per thread: how its last Logger call ended
    appended,           \* every reading passed to log_reading, in call order
    rotations,          \* number of completed _rotate calls
    cpc,                \* per connection: the client's next statement
    attempt,            \* per connection: the attempt counter of send()
    payload,            \* per connection: the payload send() was called with
    result,             \* per connection: what send() returned
    c2s,                \* per connection: bytes in flight, client to server
    s2c,                \* per connection: bytes in flight, server to client
    raw_data,           \* per connection: the handler's raw_data
    sclosed,            \* per connection: the server closed its socket
    running,            \* ServerGUI.running
    codec,              \* the codec at work: the mapping, its bytes, the mapping read back
    faults              \* number of writes to the Active Segment that have failed

logger_vars == <<buffer, current_file, current_filename, last_rotation_time,
                 line_count, log_dir, archive_dir>>
thread_vars == <<pc, it, flushRet, stopRet, outcome>>
net_vars == <<cpc, attempt, payload, result, c2s, s2c, raw_data, sclosed>>
aux_vars == <<running, codec, faults>>
vars == <<cfg, clock, logger_vars, thread_vars, appended, rotations, net_vars, aux_vars>>

\* ---------------------------------------------------------------- file system
Exists(dir, name) == name \in DOMAIN dir

Remove(dir, name) == [n \in DOMAIN dir \ {name} |-> dir[n]]

Put(dir, name, file) == [n \in DOMAIN dir \cup {name} |-> IF n = name THEN file ELSE dir[n]]

\* open(filepath, 'a'): creates the file when it does not exist.
OpenAppend(dir, name, now) ==
    IF Exists(dir, name) THEN dir ELSE Put(dir, name, [rows |-> <<>>, ctime |-> now])

\* The file object's buffered rows reach the disk (flush or close).  Rows
\* written to a file that was unlinked meanwhile are lost with its inode.
WriteOut(dir, fobj, now) ==
    IF fobj.pending = <<>> \/ ~Exists(dir, fobj.name) THEN dir
    ELSE Put(dir, fobj.name, [rows |-> dir[fobj.name].rows \o fobj.pending, ctime |-> now])

\* datetime.now().strftime(filename_pattern) for a date-based pattern.
Strftime(now) == now \div SecondsPerDay

IsOpen == current_file # <<>>

\* ------------------------------------------------------------ thread control
\* The caller gets control back: the main thread is idle again, a handler
\* thread continues in _handle_client (ACK after a normal return, the except
\* clause after an exception).
Return(t) ==
    /\ pc' = [pc EXCEPT ![t] = IF t = Main THEN "idle" ELSE "L34"]
    /\ outcome' = [outcome EXCEPT ![t] = "returned"]

Raise(t) ==
    /\ pc' = [pc EXCEPT ![t] = IF t = Main THEN "idle" ELSE "L36"]
    /\ outcome' = [outcome EXCEPT ![t] = "raised"]

Goto(t, label) ==
    /\ pc' = [pc EXCEPT ![t] = label]
    /\ outcome' = outcome

\* ------------------------------------------------------------------- Logger
\* log_reading, line 89: the entry joins the buffer.
log_reading(t, r) ==
    /\ buffer' = Append(buffer, r)
    /\ appended' = Append(appended, r)
    /\ pc' = [pc EXCEPT ![t] = "L92"]
    /\ outcome' = [outcome EXCEPT ![t] = "running"]
    /\ UNCHANGED <<net_vars, aux_vars, cfg, clock, current_file, current_filename, last_rotation_time,
                   line_count, log_dir, archive_dir, it, flushRet, stopRet, rotations>>

\* A slip in line 92: > where the code has >=.
NeedFlushStrictly == Len(buffer) > cfg.buffer_size

\* log_reading, lines 92-93: flush when the buffer reached buffer_size.
NeedFlush == Len(buffer) >= cfg.buffer_size

log_reading_L92(t) ==
    /\ pc[t] = "L92"
    /\ IF NeedFlush
       THEN /\ Goto(t, "L117")
            /\ flushRet' = [flushRet EXCEPT ![t] = "L129"]
       ELSE /\ Goto(t, "L129")
            /\ flushRet' = flushRet
    /\ UNCHANGED <<net_vars, aux_vars, cfg, clock, logger_vars, it, stopRet, appended, rotations>>

\* A flush that looks at the buffer only and not at the writer.
flush_buffer_L117_ignores_writer(t) ==
    /\ pc[t] = "L117"
    /\ IF buffer = <<>>
       THEN Goto(t, flushRet[t])
       ELSE Goto(t, "L120")
    /\ it' = [it EXCEPT ![t] = 0]
    /\ UNCHANGED <<net_vars, aux_vars, cfg, clock, logger_vars, flushRet, stopRet, appended,
                   rotations>>

\* _flush_buffer, lines 117-118: nothing to do without entries or a writer.
flush_buffer_L117(t) ==
    /\ pc[t] = "L117"
    /\ IF buffer = <<>> \/ ~IsOpen
       THEN Goto(t, flushRet[t])
       ELSE Goto(t, "L120")
    /\ it' = [it EXCEPT ![t] = 0]
    /\ UNCHANGED <<net_vars, aux_vars, cfg, clock, logger_vars, flushRet, stopRet, appended, rotations>>

\* _flush_buffer, lines 120-122: one turn of the loop writes the next entry
\* of the (shared) list and counts it; the list iterator stops once its index
\* is past the end of the list as it is then.
flush_buffer_L120(t) ==
    /\ pc[t] = "L120"
    /\ IF it[t] >= Len(buffer)
       THEN /\ Goto(t, "L124")
            /\ UNCHANGED <<current_file, line_count, it>>
       ELSE IF ~IsOpen
       THEN /\ Raise(t)
            /\ UNCHANGED <<current_file, line_count, it>>
       ELSE /\ Goto(t, "L120")
            /\ current_file' =
                 <<[current_file[1] EXCEPT !.pending = Append(@, WriteRow(buffer[it[t] + 1]))]>>
            /\ line_count' = line_count + 1
            /\ it' = [it EXCEPT ![t] = @ + 1]
    /\ UNCHANGED <<net_vars, aux_vars, cfg, clock, buffer, current_filename, last_rotation_time, log_dir,
                   archive_dir, flushRet, stopRet, appended, rotations>>

\* _flush_buffer, line 124: current_file.flush().
flush_buffer_L124(t) ==
    /\ pc[t] = "L124"
    /\ IF ~IsOpen
       THEN /\ Raise(t)
            /\ UNCHANGED <<current_file, log_dir>>
       ELSE /\ Goto(t, "L125")
            /\ log_dir' = WriteOut(log_dir, current_file[1], clock)
            /\ current_file' = <<[current_file[1] EXCEPT !.pending = <<>>]>>
    /\ UNCHANGED <<net_vars, aux_vars, cfg, clock, buffer, current_filename, last_rotation_time, line_count,
                   archive_dir, it, flushRet, stopRet, appended, rotations>>

\* _flush_buffer, line 125: buffer.clear(), then back to the caller.
flush_buffer_L125(t) ==
    /\ pc[t] = "L125"
    /\ buffer' = <<>>
    /\ Goto(t, flushRet[t])
    /\ UNCHANGED <<net_vars, aux_vars, cfg, clock, current_file, current_filename, last_rotation_time,
                   line_count, log_dir, archive_dir, it, flushRet, stopRet, appended,
                   rotations>>

\* _check_rotation, lines 136-147: the three rotation predicates.
HoursElapsed ==
    /\ cfg.rotate_every_hours # 0
    /\ clock - last_rotation_time >= cfg.rotate_every_hours * SecondsPerHour

SizeReached ==
    /\ cfg.max_size_bytes # 0
    /\ FileBytes(log_dir[current_file[1].name].rows) >= cfg.max_size_bytes

\* A slip in line 146: > where the code has >=.
LinesReachedStrictly ==
    /\ cfg.rotate_after_lines # 0
    /\ line_count > cfg.rotate_after_lines

LinesReached ==
    /\ cfg.rotate_after_lines # 0
    /\ line_count >= cfg.rotate_after_lines

need_rotation == HoursElapsed \/ SizeReached \/ LinesReached

\* _check_rotation, lines 129-150.  os.path.getsize raises when the file was
\* removed by a concurrent rotation.
check_rotation(t) ==
    /\ pc[t] = "L129"
    /\ IF ~IsOpen
       THEN /\ Return(t)
            /\ stopRet' = stopRet
       ELSE IF cfg.max_size_bytes # 0 /\ ~Exists(log_dir, current_file[1].name)
       THEN /\ Raise(t)
            /\ stopRet' = stopRet
       ELSE IF need_rotation
       THEN /\ Goto(t, "L70")
            /\ stopRet' = [stopRet EXCEPT ![t] = "L155"]
       ELSE /\ Return(t)
            /\ stopRet' = stopRet
    /\ UNCHANGED <<net_vars, aux_vars, cfg, clock, logger_vars, it, flushRet, appended, rotations>>

\* A stop that closes the file without flushing the buffer first.
stop_L70_without_flush(t) ==
    /\ pc[t] = "L70"
    /\ Goto(t, "L73")
    /\ flushRet' = flushRet
    /\ UNCHANGED <<net_vars, aux_vars, cfg, clock, logger_vars, it, stopRet, appended, rotations>>

\* stop, lines 70-71: flush what the buffer holds.
stop_L70(t) ==
    /\ pc[t] = "L70"
    /\ IF buffer # <<>>
       THEN /\ Goto(t, "L117")
            /\ flushRet' = [flushRet EXCEPT ![t] = "L73"]
       ELSE /\ Goto(t, "L73")
            /\ flushRet' = flushRet
    /\ UNCHANGED <<net_vars, aux_vars, cfg, clock, logger_vars, it, stopRet, appended, rotations>>

\* A stop that closes the file without looking whether there is one:
\* None.close() raises AttributeError.
stop_L73_unguarded(t) ==
    /\ pc[t] = "L73"
    /\ IF IsOpen
       THEN /\ log_dir' = WriteOut(log_dir, current_file[1], clock)
            /\ current_file' = <<>>
            /\ IF stopRet[t] = "L155" THEN Goto(t, "L155") ELSE Return(t)
       ELSE /\ UNCHANGED <<log_dir, current_file>>
            /\ Raise(t)
    /\ UNCHANGED <<net_vars, aux_vars, cfg, clock, buffer, current_filename, last_rotation_time,
                   line_count, archive_dir, it, flushRet, stopRet, appended, rotations>>

\* stop, lines 73-76: close the file (its buffered rows reach the disk) and
\* forget file and writer.
stop_L73(t) ==
    /\ pc[t] = "L73"
    /\ IF IsOpen
       THEN /\ log_dir' = WriteOut(log_dir, current_file[1], clock)
            /\ current_file' = <<>>
       ELSE UNCHANGED <<log_dir, current_file>>
    /\ IF stopRet[t] = "L155" THEN Goto(t, "L155") ELSE Return(t)
    /\ UNCHANGED <<net_vars, aux_vars, cfg, clock, buffer, current_filename, last_rotation_time, line_count,
                   archive_dir, it, flushRet, stopRet, appended, rotations>>

\* _archive_current_file, lines 169-171: the archive is named after the
\* source file's ctime, at one-second resolution, and the file name.
ArchiveName(creation_time, filename) == <<creation_time, filename>>

\* _archive_current_file, lines 159-178: ZipFile(archive_path, 'w') creates
\* or truncates the archive, the CSV becomes its single entry, the CSV is removed.
archive_current_file(t) ==
    /\ pc[t] = "L155"
    /\ IF Exists(log_dir, current_filename)
       THEN /\ archive_dir' =
                 Put(archive_dir,
                     ArchiveName(log_dir[current_filename].ctime, current_filename),
                     [arcname |-> current_filename,
                      rows |-> log_dir[current_filename].rows,
                      ctime |-> clock])
            /\ log_dir' = Remove(log_dir, current_filename)
       ELSE UNCHANGED <<archive_dir, log_dir>>
    /\ Goto(t, "L156")
    /\ UNCHANGED <<net_vars, aux_vars, cfg, clock, buffer, current_file, current_filename, last_rotation_time,
                   line_count, it, flushRet, stopRet, appended, rotations>>

\* _clean_old_archives, lines 183-187: an archive goes when it was created
\* before now - retention_days.
Expired(arch, now) == arch.ctime < now - cfg.retention_days * SecondsPerDay

clean_old_archives(t) ==
    /\ pc[t] = "L156"
    /\ archive_dir' =
         [n \in {m \in DOMAIN archive_dir : ~Expired(archive_dir[m], clock)} |-> archive_dir[n]]
    /\ Goto(t, "L157")
    /\ UNCHANGED <<net_vars, aux_vars, cfg, clock, buffer, current_file, current_filename, last_rotation_time,
                   line_count, log_dir, it, flushRet, stopRet, appended, rotations>>

\* A start that writes no header.
StartFileWithoutHeader(dir, now) == [name |-> Strftime(now), pending |-> <<>>]

\* start, lines 48-64: open the file named after the current date in append
\* mode; a file that did not exist gets the header and line_count restarts.
StartFile(dir, now) ==
    [name |-> Strftime(now),
     pending |-> IF Exists(dir, Strftime(now)) THEN <<>> ELSE <<HEADER>>]

StartLineCount(dir, now, count) == IF Exists(dir, Strftime(now)) THEN count ELSE 0

start(t) ==
    /\ pc[t] = "L157"
    /\ current_filename' = Strftime(clock)
    /\ current_file' = <<StartFile(log_dir, clock)>>
    /\ log_dir' = OpenAppend(log_dir, Strftime(clock), clock)
    /\ line_count' = StartLineCount(log_dir, clock, line_count)
    /\ last_rotation_time' = clock
    /\ rotations' = rotations + 1
    /\ Return(t)
    /\ UNCHANGED <<net_vars, aux_vars, cfg, clock, buffer, archive_dir, it, flushRet, stopRet, appended>>

\* ------------------------------------------------------------------- queries
\* start <= timestamp <= end on datetimes.
DatetimeLe(a, b) == a.sec < b.sec \/ (a.sec = b.sec /\ a.usec <= b.usec)

\* _read_log_file / _read_zip_file, the body of "for row in reader": a row
\* that has not four cells, or whose timestamp or value does not parse, is
\* skipped; a row in range that passes the sensor filter is yielded.
\* sensor_id is <<>> for None.
RowYield(row, qstart, qend, sensor_id) ==
    IF Len(row) # 4 THEN <<>>
    ELSE IF Strptime(row[1]) = <<>> \/ ParseFloat(row[3]) = <<>> THEN <<>>
    ELSE IF /\ DatetimeLe(qstart, Strptime(row[1])[1])
            /\ DatetimeLe(Strptime(row[1])[1], qend)
            /\ (sensor_id = <<>> \/ row[2] = Str(sensor_id[1]))
    THEN <<Reading(Strptime(row[1])[1], row[2].str, ParseFloat(row[3])[1], row[4].str)>>
    ELSE <<>>

RECURSIVE ReadRows(_, _, _, _)
ReadRows(rows, qstart, qend, sensor_id) ==
    IF rows = <<>> THEN <<>>
    ELSE RowYield(Head(rows), qstart, qend, sensor_id)
         \o ReadRows(Tail(rows), qstart, qend, sensor_id)

\* _read_log_file, lines 198-222: next(reader) skips the header; on a file
\* with no row at all it raises StopIteration inside the generator, which
\* reaches the consumer as RuntimeError and ends the scan.
read_log_file(file, qstart, qend, sensor_id) ==
    IF file.rows = <<>> THEN [raised |-> TRUE, out |-> <<>>]
    ELSE [raised |-> FALSE, out |-> ReadRows(Tail(file.rows), qstart, qend, sensor_id)]

\* _read_zip_file, lines 232-264: the same scan over the archive's CSV entry.
read_zip_file(arch, qstart, qend, sensor_id) ==
    IF arch.rows = <<>> THEN [raised |-> TRUE, out |-> <<>>]
    ELSE [raised |-> FALSE, out |-> ReadRows(Tail(arch.rows), qstart, qend, sensor_id)]

\* glob.glob lists a directory in no specified order; the scan takes the
\* files one after the other and stops at the first one that raises.
RECURSIVE ScanCsv(_, _, _, _, _)
ScanCsv(dir, names, qstart, qend, sensor_id) ==
    IF names = {} THEN [raised |-> FALSE, out |-> <<>>]
    ELSE LET n == CHOOSE x \in names : TRUE
             r == read_log_file(dir[n], qstart, qend, sensor_id)
             rest == ScanCsv(dir, names \ {n}, qstart, qend, sensor_id)
         IN IF r.raised THEN r ELSE [raised |-> rest.raised, out |-> r.out \o rest.out]

RECURSIVE ScanZip(_, _, _, _, _)
ScanZip(dir, names, qstart, qend, sensor_id) ==
    IF names = {} THEN [raised |-> FALSE, out |-> <<>>]
    ELSE LET n == CHOOSE x \in names : TRUE
             r == read_zip_file(dir[n], qstart, qend, sensor_id)
             rest == ScanZip(dir, names \ {n}, qstart, qend, sensor_id)
         IN IF r.raised THEN r ELSE [raised |-> rest.raised, out |-> r.out \o rest.out]

\* read_logs, lines 108-113: the CSV files of log_dir, then the archives.
\* out is what the consumer was handed before the scan ended or raised.
read_logs(qstart, qend, sensor_id) ==
    LET a == ScanCsv(log_dir, DOMAIN log_dir, qstart, qend, sensor_id)
        b == ScanZip(archive_dir, DOMAIN archive_dir, qstart, qend, sensor_id)
    IN IF a.raised THEN a ELSE [raised |-> b.raised, out |-> a.out \o b.out]

\* datetime.min and datetime.max: the unbounded time range.
DatetimeMin == Datetime(0, 0)
DatetimeMax == Datetime(366 * SecondsPerDay, 999999)

QueryAll == read_logs(DatetimeMin, DatetimeMax, <<>>)

\* One step of thread t inside Logger.
LoggerStep(t) ==
    \/ log_reading_L92(t)
    \/ flush_buffer_L117(t)
    \/ flush_buffer_L120(t)
    \/ flush_buffer_L124(t)
    \/ flush_buffer_L125(t)
    \/ check_rotation(t)
    \/ stop_L70(t)
    \/ stop_L73(t)
    \/ archive_current_file(t)
    \/ clean_old_archives(t)
    \/ start(t)

\* -------------------------------------------------------------------- codec
\* JSON values of a flat mapping: strings, numbers, null.
JStr(x) == [t |-> "str", s |-> x]
JNum(x) == [t |-> "num", n |-> x]
JNull == [t |-> "null"]

\* Bytes on the wire, as pieces of text: the JSON text of a mapping, the
\* newline delimiter, any other text.
JsonText(d) == [tok |-> "json", d |-> d]
NL == [tok |-> "nl"]
Text(x) == [tok |-> "text", s |-> x]

\* The end of the byte stream: the sender has closed, recv returns b"".
EOF == [tok |-> "eof"]

\* The bytes in flight up to the end of the stream.
RECURSIVE UpToEOF(_)
UpToEOF(bytes) ==
    IF bytes = <<>> \/ Head(bytes) = EOF THEN <<>> ELSE <<Head(bytes)>> \o UpToEOF(Tail(bytes))

\* Bytes that are not UTF-8 (0xff), and bytes.decode(): <<>> stands for the
\* UnicodeDecodeError.
NotUtf8 == [tok |-> "bad"]
Decode(bytes) == IF \E i \in DOMAIN bytes : bytes[i] = NotUtf8 THEN <<>> ELSE <<bytes>>

\* _serialize, line 50: json.dumps(data).encode('utf-8').
Serialize(d) == <<JsonText(d)>>

\* str.strip() / the whitespace json.loads skips: newlines at both ends go.
RECURSIVE StripLeft(_)
StripLeft(bytes) ==
    IF bytes # <<>> /\ Head(bytes) = NL THEN StripLeft(Tail(bytes)) ELSE bytes

RECURSIVE StripRight(_)
StripRight(bytes) ==
    IF bytes # <<>> /\ bytes[Len(bytes)] = NL
    THEN StripRight(SubSeq(bytes, 1, Len(bytes) - 1))
    ELSE bytes

Strip(bytes) == StripRight(StripLeft(bytes))

\* json.loads(raw.decode("utf-8")): exactly one JSON document, whitespace
\* around it allowed; <<>> stands for the JSONDecodeError.
Deserialize(bytes) ==
    IF Len(Strip(bytes)) = 1 /\ Strip(bytes)[1].tok = "json"
    THEN <<Strip(bytes)[1].d>>
    ELSE <<>>

\* datetime.fromisoformat on a JSON value.
fromisoformat(jv) ==
    IF jv.t # "str" THEN [err |-> "TypeError", val |-> <<>>]
    ELSE IF jv.s = "2024-01-01T10:00:00" THEN [err |-> "", val |-> <<TsWhole>>]
    ELSE IF jv.s = "2024-01-01T10:00:00.500000" THEN [err |-> "", val |-> <<TsFrac>>]
    ELSE [err |-> "ValueError", val |-> <<>>]

\* float() on a JSON value.
float(jv) ==
    IF jv.t = "num" THEN [err |-> "", val |-> <<jv.n>>]
    ELSE IF jv.t # "str" THEN [err |-> "TypeError", val |-> <<>>]
    ELSE IF jv.s = "23" THEN [err |-> "", val |-> <<23>>]
    ELSE [err |-> "ValueError", val |-> <<>>]

\* data[key]
Subscript(d, key) ==
    IF key \in DOMAIN d THEN [err |-> "", val |-> <<d[key]>>]
    ELSE [err |-> "KeyError", val |-> <<>>]

\* _process_data, lines 40-43: the four fields in the order the code reads
\* them; err names the first exception, reading is the parsed Reading.
ParseFields(d) ==
    LET ts == IF Subscript(d, "timestamp").err # "" THEN Subscript(d, "timestamp")
              ELSE fromisoformat(d.timestamp)
        sid == Subscript(d, "sensor_id")
        val == IF Subscript(d, "value").err # "" THEN Subscript(d, "value")
               ELSE float(d.value)
        unit == Subscript(d, "unit")
    IN IF ts.err # "" THEN [err |-> ts.err, reading |-> <<>>]
       ELSE IF sid.err # "" THEN [err |-> sid.err, reading |-> <<>>]
       ELSE IF val.err # "" THEN [err |-> val.err, reading |-> <<>>]
       ELSE IF unit.err # "" THEN [err |-> unit.err, reading |-> <<>>]
       ELSE [err |-> "",
             reading |-> <<Reading(ts.val[1], d.sensor_id.s, val.val[1], d.unit.s)>>]

\* _process_data, lines 51-52: the exceptions it catches and only prints.
Swallowed(err) == err \in {"KeyError", "ValueError"}

\* The acknowledgment, line 34: b"ACK\n".
ACK == <<Text("ACK"), NL>>

\* ------------------------------------------------------------------ payloads
ValidFrac ==
    [timestamp |-> JStr("2024-01-01T10:00:00.500000"), sensor_id |-> JStr("s2"),
     value |-> JNum(40), unit |-> JStr("C")]

ValidWhole ==
    [timestamp |-> JStr("2024-01-01T10:00:00"), sensor_id |-> JStr("s1"),
     value |-> JStr("23"), unit |-> JStr("C")]

MissingValue ==
    [timestamp |-> JStr("2024-01-01T10:00:00"), sensor_id |-> JStr("s1"),
     unit |-> JStr("C")]

BadTimestamp ==
    [timestamp |-> JStr("yesterday"), sensor_id |-> JStr("s1"),
     value |-> JNum(23), unit |-> JStr("C")]

NullValue ==
    [timestamp |-> JStr("2024-01-01T10:00:00"), sensor_id |-> JStr("s1"),
     value |-> JNull, unit |-> JStr("C")]

\* What a peer puts on the wire in front of the delimiter: the serialized
\* mappings above, and text that is not JSON.
Payloads ==
    { Serialize(ValidFrac), Serialize(ValidWhole), Serialize(MissingValue),
      Serialize(BadTimestamp), Serialize(NullValue), <<Text("{oops")>> }

\* -------------------------------------------------------------------- server
\* An accept loop that handles a connection in its own thread of control:
\* the next accept waits until every handler has finished.
connect_when_handlers_done(c) ==
    /\ cpc[c] = "new"
    /\ pc[c] = "idle"
    /\ \A d \in Conns \ {c} : pc[d] \in {"idle", "closed"}
    /\ cpc' = [cpc EXCEPT ![c] = "connected"]
    /\ pc' = [pc EXCEPT ![c] = "L26"]
    /\ UNCHANGED <<aux_vars, cfg, clock, logger_vars, it, flushRet, stopRet, outcome, appended,
                   rotations, attempt, payload, result, c2s, s2c, raw_data, sclosed>>

\* start, lines 19-20, with connect, client.py line 19: the connection is
\* accepted and gets a handler thread of its own.
connect(c) ==
    /\ cpc[c] = "new"
    /\ pc[c] = "idle"
    /\ cpc' = [cpc EXCEPT ![c] = "connected"]
    /\ pc' = [pc EXCEPT ![c] = "L26"]
    /\ UNCHANGED <<aux_vars, cfg, clock, logger_vars, it, flushRet, stopRet, outcome, appended,
                   rotations, attempt, payload, result, c2s, s2c, raw_data, sclosed>>

\* with client_socket, line 23: leaving the block closes the socket.
CloseSocket(c) ==
    /\ sclosed' = [sclosed EXCEPT ![c] = TRUE]
    /\ pc' = [pc EXCEPT ![c] = "closed"]

\* A handler that takes the end of the stream for the end of the frame.
handle_client_L26_eof_ends_frame(c) ==
    /\ pc[c] = "L26"
    /\ c2s[c] # <<>>
    /\ raw_data' = [raw_data EXCEPT ![c] = @ \o UpToEOF(c2s[c])]
    /\ c2s' = [c2s EXCEPT ![c] = SubSeq(@, Len(UpToEOF(@)) + 1, Len(@))]
    /\ sclosed' = sclosed
    /\ pc' = [pc EXCEPT ![c] =
                IF Head(c2s[c]) = EOF \/ c2s[c][Len(UpToEOF(c2s[c]))] = NL THEN "L32" ELSE "L26"]
    /\ UNCHANGED <<aux_vars, cfg, clock, logger_vars, it, flushRet, stopRet, outcome, appended,
                   rotations, cpc, attempt, payload, result, s2c>>

\* _handle_client, lines 26-30: recv returns what has arrived and the loop
\* ends when raw_data ends with the delimiter; at the end of the stream recv
\* returns b"" and the handler returns, which closes the socket.
handle_client_L26(c) ==
    /\ pc[c] = "L26"
    /\ c2s[c] # <<>>
    /\ IF Head(c2s[c]) = EOF
       THEN /\ CloseSocket(c)
            /\ UNCHANGED <<raw_data, c2s>>
       ELSE /\ raw_data' = [raw_data EXCEPT ![c] = @ \o UpToEOF(c2s[c])]
            /\ c2s' = [c2s EXCEPT ![c] = SubSeq(@, Len(UpToEOF(@)) + 1, Len(@))]
            /\ sclosed' = sclosed
            /\ pc' = [pc EXCEPT ![c] =
                        IF c2s[c][Len(UpToEOF(c2s[c]))] = NL THEN "L32" ELSE "L26"]
    /\ UNCHANGED <<aux_vars, cfg, clock, logger_vars, it, flushRet, stopRet, outcome, appended,
                   rotations, cpc, attempt, payload, result, s2c>>

\* _handle_client, lines 32-33, and _process_data, lines 38-52: decode the
\* frame and parse its fields; a reading is handed to log_reading (whose line
\* 89 runs in this step); KeyError and ValueError are printed and
\* _process_data returns; any other exception reaches line 35.
handle_client_L32(c) ==
    /\ pc[c] = "L32"
    /\ IF Deserialize(raw_data[c]) = <<>>
       THEN /\ pc' = [pc EXCEPT ![c] = "L36"]
            /\ UNCHANGED <<buffer, appended, outcome>>
       ELSE IF ParseFields(Deserialize(raw_data[c])[1]).err = ""
       THEN log_reading(c, ParseFields(Deserialize(raw_data[c])[1]).reading[1])
       ELSE IF Swallowed(ParseFields(Deserialize(raw_data[c])[1]).err)
       THEN /\ pc' = [pc EXCEPT ![c] = "L34"]
            /\ UNCHANGED <<buffer, appended, outcome>>
       ELSE /\ pc' = [pc EXCEPT ![c] = "L36"]
            /\ UNCHANGED <<buffer, appended, outcome>>
    /\ UNCHANGED <<net_vars, aux_vars, cfg, clock, current_file, current_filename,
                   last_rotation_time, line_count, log_dir, archive_dir, it, flushRet,
                   stopRet, rotations>>

\* A handler that keeps the connection for the next frame after its ACK.
handle_client_L34_next_frame(c) ==
    /\ pc[c] = "L34"
    /\ s2c' = [s2c EXCEPT ![c] = @ \o ACK]
    /\ raw_data' = [raw_data EXCEPT ![c] = <<>>]
    /\ pc' = [pc EXCEPT ![c] = "L26"]
    /\ UNCHANGED <<aux_vars, cfg, clock, logger_vars, it, flushRet, stopRet, outcome, appended,
                   rotations, cpc, attempt, payload, result, c2s, sclosed>>

\* _handle_client, line 34: sendall(b"ACK\n"), then the socket is closed.
handle_client_L34(c) ==
    /\ pc[c] = "L34"
    /\ s2c' = [s2c EXCEPT ![c] = @ \o ACK]
    /\ CloseSocket(c)
    /\ UNCHANGED <<aux_vars, cfg, clock, logger_vars, it, flushRet, stopRet, outcome, appended,
                   rotations, cpc, attempt, payload, result, c2s, raw_data>>

\* _handle_client, lines 35-36: the error is printed, then the socket is closed.
handle_client_L36(c) ==
    /\ pc[c] = "L36"
    /\ CloseSocket(c)
    /\ UNCHANGED <<aux_vars, cfg, clock, logger_vars, it, flushRet, stopRet, outcome, appended,
                   rotations, cpc, attempt, payload, result, c2s, s2c, raw_data>>

\* ------------------------------------------------------------ storage errors
\* What a write to the Active Segment can raise: OSError (no space left on
\* the device) and ValueError (UnicodeEncodeError of a cell, "I/O operation
\* on closed file").
StorageErrors == {"OSError", "ValueError"}

\* An exception leaves the Logger call of thread t.  The main thread's
\* caller gets it; in a handler thread _process_data catches it at line 51
\* when it is a KeyError or ValueError, and _handle_client at line 35 otherwise.
RaiseError(t, err) ==
    /\ pc' = [pc EXCEPT ![t] = IF t = Main THEN "idle"
                               ELSE IF Swallowed(err) THEN "L34" ELSE "L36"]
    /\ outcome' = [outcome EXCEPT ![t] = "raised"]

\* A flush whose error handling empties the buffer (buffer.clear() in a
\* finally clause).
flush_buffer_raises_and_clears(t, err) ==
    /\ pc[t] \in {"L120", "L124"}
    /\ pc[t] = "L120" => it[t] < Len(buffer)
    /\ IsOpen
    /\ faults < MaxFaults
    /\ faults' = faults + 1
    /\ RaiseError(t, err)
    /\ buffer' = <<>>
    /\ UNCHANGED <<net_vars, running, codec, cfg, clock, current_file, current_filename,
                   last_rotation_time, line_count, log_dir, archive_dir, it, flushRet,
                   stopRet, appended, rotations>>

\* _flush_buffer, line 121 or line 124: writerow or flush raises.  Nothing
\* catches the exception inside Logger, and line 125 is not reached.
flush_buffer_raises(t, err) ==
    /\ pc[t] \in {"L120", "L124"}
    /\ pc[t] = "L120" => it[t] < Len(buffer)
    /\ IsOpen
    /\ faults < MaxFaults
    /\ faults' = faults + 1
    /\ RaiseError(t, err)
    /\ UNCHANGED <<net_vars, running, codec, cfg, clock, logger_vars, it, flushRet, stopRet,
                   appended, rotations>>

\* -------------------------------------------------------------------- client
\* The number of attempts send() makes (retries).
Retries == 2

\* send, line 26: the call, with its payload.
send(c, bytes) ==
    /\ cpc[c] = "connected"
    /\ payload' = [payload EXCEPT ![c] = bytes]
    /\ attempt' = [attempt EXCEPT ![c] = 1]
    /\ cpc' = [cpc EXCEPT ![c] = "L29"]
    /\ UNCHANGED <<aux_vars, cfg, clock, logger_vars, thread_vars, appended, rotations, result,
                   c2s, s2c, raw_data, sclosed>>

\* send, lines 27 and 42: the next attempt, or False when none is left.
NextAttempt(c) ==
    IF attempt[c] < Retries
    THEN /\ attempt' = [attempt EXCEPT ![c] = @ + 1]
         /\ cpc' = [cpc EXCEPT ![c] = "L29"]
         /\ result' = result
    ELSE /\ attempt' = attempt
         /\ cpc' = [cpc EXCEPT ![c] = "done"]
         /\ result' = [result EXCEPT ![c] = "false"]

\* A send that opens a new connection when it finds the old one closed.
send_L29_reconnects(c) ==
    /\ cpc[c] = "L29"
    /\ IF sclosed[c]
       THEN /\ sclosed' = [sclosed EXCEPT ![c] = FALSE]
            /\ pc' = [pc EXCEPT ![c] = "L26"]
            /\ c2s' = [c2s EXCEPT ![c] = payload[c] \o <<NL>>]
            /\ s2c' = [s2c EXCEPT ![c] = <<>>]
            /\ raw_data' = [raw_data EXCEPT ![c] = <<>>]
       ELSE /\ c2s' = [c2s EXCEPT ![c] = @ \o payload[c] \o <<NL>>]
            /\ UNCHANGED <<pc, s2c, raw_data, sclosed>>
    /\ cpc' = [cpc EXCEPT ![c] = "L32"]
    /\ UNCHANGED <<aux_vars, cfg, clock, logger_vars, it, flushRet, stopRet, outcome,
                   appended, rotations, attempt, payload, result>>

\* send, line 29: sendall(payload + b'\n').  Once the server has closed the
\* connection the bytes go nowhere.
send_L29(c) ==
    /\ cpc[c] = "L29"
    /\ c2s' = [c2s EXCEPT ![c] = IF sclosed[c] THEN @ ELSE @ \o payload[c] \o <<NL>>]
    /\ cpc' = [cpc EXCEPT ![c] = "L32"]
    /\ UNCHANGED <<aux_vars, cfg, clock, logger_vars, thread_vars, appended, rotations, attempt,
                   payload, result, s2c, raw_data, sclosed>>

\* send, lines 32-37: recv returns what the peer wrote, or b"" once the
\* peer has closed; decode() raises UnicodeDecodeError, which is a ValueError
\* and not a socket.error, so that it leaves send(); only the text ACK makes
\* send return True.
send_L32(c) ==
    /\ cpc[c] = "L32"
    /\ s2c[c] # <<>> \/ sclosed[c]
    /\ s2c' = [s2c EXCEPT ![c] = <<>>]
    /\ IF Decode(s2c[c]) = <<>>
       THEN /\ result' = [result EXCEPT ![c] = "raised"]
            /\ cpc' = [cpc EXCEPT ![c] = "done"]
            /\ attempt' = attempt
       ELSE IF Strip(Decode(s2c[c])[1]) = <<Text("ACK")>>
       THEN /\ result' = [result EXCEPT ![c] = "true"]
            /\ cpc' = [cpc EXCEPT ![c] = "done"]
            /\ attempt' = attempt
       ELSE NextAttempt(c)
    /\ UNCHANGED <<aux_vars, cfg, clock, logger_vars, thread_vars, appended, rotations, payload,
                   c2s, raw_data, sclosed>>

\* send, lines 38-40: recv times out while the server has written nothing;
\* socket.timeout is a socket.error, the attempt has failed.
send_timeout(c) ==
    /\ cpc[c] = "L32"
    /\ s2c[c] = <<>> /\ ~sclosed[c]
    /\ NextAttempt(c)
    /\ UNCHANGED <<aux_vars, cfg, clock, logger_vars, thread_vars, appended, rotations, payload,
                   c2s, s2c, raw_data, sclosed>>

\* ---------------------------------------------------------------- any peer
\* connect, line 19, to a peer that is not NetworkServer.
connect_peer(c) ==
    /\ cpc[c] = "new"
    /\ cpc' = [cpc EXCEPT ![c] = "connected"]
    /\ UNCHANGED <<aux_vars, cfg, clock, logger_vars, thread_vars, appended, rotations,
                   attempt, payload, result, c2s, s2c, raw_data, sclosed>>

\* What a peer has sent when it closes before the delimiter: nothing, the
\* beginning of a JSON text, a whole JSON text.
Truncations == { <<>>, <<Text("{\"timestamp\": \"2024")>>, Serialize(ValidFrac) }

\* A peer that sends part of a frame and closes the connection.
peer_truncates(c, bytes) ==
    /\ cpc[c] = "connected"
    /\ c2s' = [c2s EXCEPT ![c] = bytes \o <<EOF>>]
    /\ cpc' = [cpc EXCEPT ![c] = "done"]
    /\ UNCHANGED <<aux_vars, cfg, clock, logger_vars, thread_vars, appended, rotations,
                   attempt, payload, result, s2c, raw_data, sclosed>>

\* stop_server, gui.py lines 94-96: NetworkServer has no stop method, the
\* call raises AttributeError and the accept loop is not touched.
stop_server ==
    /\ running
    /\ running' = FALSE
    /\ UNCHANGED <<cfg, clock, logger_vars, thread_vars, appended, rotations, net_vars,
                   codec, faults>>

\* What such a peer answers to a frame.
PeerReplies ==
    { ACK, <<Text("ACK")>>, <<NL, Text("ACK"), NL, NL>>, <<Text("NAK"), NL>>,
      ACK \o ACK, <<NotUtf8, NL>> }

\* The peer reads the frame and answers it: what recv, line 32, returns next.
peer_reply(c, bytes) ==
    /\ c2s[c] # <<>>
    /\ ~sclosed[c]
    /\ c2s' = [c2s EXCEPT ![c] = <<>>]
    /\ s2c' = [s2c EXCEPT ![c] = @ \o bytes]
    /\ UNCHANGED <<aux_vars, cfg, clock, logger_vars, thread_vars, appended, rotations,
                   cpc, attempt, payload, result, raw_data, sclosed>>

\* The peer closes the connection.
peer_close(c) ==
    /\ cpc[c] # "new"
    /\ ~sclosed[c]
    /\ sclosed' = [sclosed EXCEPT ![c] = TRUE]
    /\ UNCHANGED <<aux_vars, cfg, clock, logger_vars, thread_vars, appended, rotations,
                   cpc, attempt, payload, result, c2s, s2c, raw_data>>

\* ------------------------------------------------------------ the JSON text
\* Serialize and Deserialize above carry a mapping through the network as
\* one piece; here is the text inside the piece, character by character.
\* A Python str is a sequence of characters, a dict a sequence of
\* <<key, value>> items in insertion order, a number prints as one piece.
QUOTE == "\""
BACKSLASH == "\\"
LF == "\n"
EACUTE == "U+00E9"

JBool(b) == [t |-> "bool", b |-> b]
JFloat(whole, tenths) == [t |-> "float", w |-> whole, f |-> tenths]

\* json.dumps of a value that is not a str: int.__repr__, float.__repr__,
\* null, true, false.
ScalarText(v) ==
    IF v.t = "num" THEN ToString(v.n)
    ELSE IF v.t = "float" THEN ToString(v.w) \o "." \o ToString(v.f)
    ELSE IF v.t = "bool" THEN (IF v.b THEN "true" ELSE "false")
    ELSE "null"

\* A dumps that leaves the line feed as it is.
EscapeCharKeepsLF(ch) ==
    IF ch = QUOTE THEN <<BACKSLASH, QUOTE>>
    ELSE IF ch = BACKSLASH THEN <<BACKSLASH, BACKSLASH>>
    ELSE IF ch = EACUTE THEN <<BACKSLASH, "u00e9">>
    ELSE <<ch>>

\* json.dumps with ensure_ascii (the default): quote, backslash and control
\* characters are escaped, a character outside ASCII becomes \uXXXX.
EscapeChar(ch) ==
    IF ch = QUOTE THEN <<BACKSLASH, QUOTE>>
    ELSE IF ch = BACKSLASH THEN <<BACKSLASH, BACKSLASH>>
    ELSE IF ch = LF THEN <<BACKSLASH, "n">>
    ELSE IF ch = EACUTE THEN <<BACKSLASH, "u00e9">>
    ELSE <<ch>>

RECURSIVE EscapeAll(_)
EscapeAll(chars) ==
    IF chars = <<>> THEN <<>> ELSE EscapeChar(Head(chars)) \o EscapeAll(Tail(chars))

DumpsStr(chars) == <<QUOTE>> \o EscapeAll(chars) \o <<QUOTE>>

DumpsValue(v) == IF v.t = "str" THEN DumpsStr(v.s) ELSE <<ScalarText(v)>>

\* The items with the default separators ', ' and ': '.
RECURSIVE DumpsItems(_)
DumpsItems(items) ==
    IF items = <<>> THEN <<>>
    ELSE DumpsStr(Head(items)[1]) \o <<":", " ">> \o DumpsValue(Head(items)[2])
         \o (IF Len(items) > 1 THEN <<",", " ">> ELSE <<>>)
         \o DumpsItems(Tail(items))

\* json.dumps(data)
dumps(d) == <<"{">> \o DumpsItems(d) \o <<"}">>

\* str.encode('utf-8') and bytes.decode('utf-8'): an ASCII character is one
\* byte, U+00E9 is the two bytes C3 A9; <<>> stands for UnicodeDecodeError.
RECURSIVE utf8_encode(_)
utf8_encode(text) ==
    IF text = <<>> THEN <<>>
    ELSE (IF Head(text) = EACUTE THEN <<"0xC3", "0xA9">> ELSE <<Head(text)>>)
         \o utf8_encode(Tail(text))

RECURSIVE utf8_decode(_)
utf8_decode(bytes) ==
    IF bytes = <<>> THEN <<bytes>>
    ELSE IF Head(bytes) = "0xC3"
    THEN LET rest == utf8_decode(SubSeq(bytes, 3, Len(bytes)))
         IN IF Len(bytes) >= 2 /\ bytes[2] = "0xA9" /\ rest # <<>>
            THEN <<<<EACUTE>> \o rest[1]>>
            ELSE <<>>
    ELSE LET rest == utf8_decode(Tail(bytes))
         IN IF Head(bytes) = "0xA9" \/ rest = <<>> THEN <<>>
            ELSE <<<<Head(bytes)>> \o rest[1]>>

\* The scalars a number or literal in the text can stand for.
Scalars ==
    {JNull, JBool(TRUE), JBool(FALSE)}
        \cup {JNum(n) : n \in {-1, 0, 23}}
        \cup {JFloat(w, f) : w \in {0, 23}, f \in {0, 5}}

ParseScalar(piece) ==
    IF \E v \in Scalars : ScalarText(v) = piece
    THEN <<CHOOSE v \in Scalars : ScalarText(v) = piece>>
    ELSE <<>>

\* What the scanner returns: the value and the text after it, or a failure
\* (JSONDecodeError).
Scanned(val, rest) == [ok |-> TRUE, val |-> val, rest |-> rest]
ScanFailed == [ok |-> FALSE, val |-> <<>>, rest |-> <<>>]

RECURSIVE SkipWs(_)
SkipWs(text) ==
    IF text # <<>> /\ Head(text) \in {" ", LF} THEN SkipWs(Tail(text)) ELSE text

Unescape(code) ==
    IF code = QUOTE THEN <<QUOTE>>
    ELSE IF code = BACKSLASH THEN <<BACKSLASH>>
    ELSE IF code = "n" THEN <<LF>>
    ELSE IF code = "u00e9" THEN <<EACUTE>>
    ELSE <<>>

\* json.decoder.scanstring after the opening quote, strict: a raw control
\* character inside a string is an error.
RECURSIVE ScanString(_, _)
ScanString(text, acc) ==
    IF text = <<>> THEN ScanFailed
    ELSE IF Head(text) = QUOTE THEN Scanned(acc, Tail(text))
    ELSE IF Head(text) = LF THEN ScanFailed
    ELSE IF Head(text) = BACKSLASH
    THEN IF Len(text) < 2 \/ Unescape(text[2]) = <<>> THEN ScanFailed
         ELSE ScanString(SubSeq(text, 3, Len(text)), acc \o Unescape(text[2]))
    ELSE ScanString(Tail(text), Append(acc, Head(text)))

ScanValue(text) ==
    IF text = <<>> THEN ScanFailed
    ELSE IF Head(text) = QUOTE
    THEN LET r == ScanString(Tail(text), <<>>)
         IN IF r.ok THEN Scanned(JStr(r.val), r.rest) ELSE ScanFailed
    ELSE IF ParseScalar(Head(text)) # <<>>
    THEN Scanned(ParseScalar(Head(text))[1], Tail(text))
    ELSE ScanFailed

\* dict[key] = value: a key that is there keeps its place.
SetItem(items, key, value) ==
    IF \E i \in DOMAIN items : items[i][1] = key
    THEN [i \in DOMAIN items |-> IF items[i][1] = key THEN <<key, value>> ELSE items[i]]
    ELSE Append(items, <<key, value>>)

\* json.decoder.JSONObject after "{" or ",": key, colon, value, then "," or "}".
RECURSIVE ScanMembers(_, _)
ScanMembers(text, acc) ==
    LET t1 == SkipWs(text)
        k == ScanString(Tail(t1), <<>>)
        t2 == SkipWs(k.rest)
        v == ScanValue(SkipWs(Tail(t2)))
        t3 == SkipWs(v.rest)
    IN IF t1 = <<>> \/ Head(t1) # QUOTE THEN ScanFailed
       ELSE IF ~k.ok THEN ScanFailed
       ELSE IF t2 = <<>> \/ Head(t2) # ":" THEN ScanFailed
       ELSE IF ~v.ok THEN ScanFailed
       ELSE IF t3 = <<>> THEN ScanFailed
       ELSE IF Head(t3) = "}" THEN Scanned(SetItem(acc, k.val, v.val), Tail(t3))
       ELSE IF Head(t3) = "," THEN ScanMembers(Tail(t3), SetItem(acc, k.val, v.val))
       ELSE ScanFailed

ScanObject(text) ==
    IF SkipWs(text) # <<>> /\ Head(SkipWs(text)) = "}"
    THEN Scanned(<<>>, Tail(SkipWs(text)))
    ELSE ScanMembers(text, <<>>)

\* json.loads of the text of a mapping: one object, whitespace around it
\* allowed, nothing after it; <<>> stands for the JSONDecodeError.
loads(text) ==
    LET t == SkipWs(text)
        r == ScanObject(Tail(t))
    IN IF t = <<>> \/ Head(t) # "{" THEN <<>>
       ELSE IF r.ok /\ SkipWs(r.rest) = <<>> THEN <<r.val>>
       ELSE <<>>

\* The strings, values and flat mappings the codec is applied to.
MaxChars == 2
MaxItems == 2

Chars == {"a", "n", QUOTE, BACKSLASH, LF, EACUTE}

Strs == UNION {[1..k -> Chars] : k \in 0..MaxChars}

Keys == {<<"a">>, <<"n", LF>>, <<>>}

Values == {JStr(x) : x \in Strs} \cup Scalars

Mappings ==
    {d \in UNION {[1..k -> Keys \X Values] : k \in 0..MaxItems} :
        \A i, j \in DOMAIN d : i # j => d[i][1] # d[j][1]}

\* _serialize, line 50, and _deserialize, line 53, one call after the other.
client_serialize ==
    /\ codec.pc = "serialize"
    /\ codec' = [codec EXCEPT !.pc = "deserialize", !.raw = utf8_encode(dumps(codec.data))]
    /\ UNCHANGED <<cfg, clock, logger_vars, thread_vars, appended, rotations, net_vars,
                   running, faults>>

client_deserialize ==
    /\ codec.pc = "deserialize"
    /\ codec' = [codec EXCEPT !.pc = "done",
                              !.back = IF utf8_decode(codec.raw) = <<>> THEN <<>>
                                       ELSE loads(utf8_decode(codec.raw)[1])]
    /\ UNCHANGED <<cfg, clock, logger_vars, thread_vars, appended, rotations, net_vars,
                   running, faults>>

\* ------------------------------------------------------ single-threaded use
\* The caller appends a reading (gui.py line 124).
CallLogReading ==
    /\ pc[Main] = "idle"
    /\ Len(appended) < MaxAppends
    /\ \E r \in InputReadings : log_reading(Main, r)

\* The caller closes the store (gui.py line 207).
CallStop ==
    /\ pc[Main] = "idle"
    /\ pc' = [pc EXCEPT ![Main] = "L70"]
    /\ outcome' = [outcome EXCEPT ![Main] = "running"]
    /\ stopRet' = [stopRet EXCEPT ![Main] = "idle"]
    /\ UNCHANGED <<net_vars, aux_vars, cfg, clock, logger_vars, it, flushRet, appended, rotations>>

MainStep == LoggerStep(Main)

\* Time passes between two calls of the caller: a second or a day.
TickSecond ==
    /\ pc[Main] = "idle"
    /\ clock % SecondsPerDay < MaxSeconds
    /\ clock' = clock + 1
    /\ UNCHANGED <<net_vars, aux_vars, cfg, logger_vars, thread_vars, appended, rotations>>

TickDay ==
    /\ pc[Main] = "idle"
    /\ clock \div SecondsPerDay < MaxDays
    /\ clock' = clock + SecondsPerDay
    /\ UNCHANGED <<net_vars, aux_vars, cfg, logger_vars, thread_vars, appended, rotations>>

\* Logger.__init__, lines 20-41, on an empty log directory: start() has
\* opened the first Active Segment.
InitStore(configs) ==
    /\ cfg \in configs
    /\ clock = 0
    /\ buffer = <<>>
    /\ current_filename = Strftime(0)
    /\ current_file = <<[name |-> Strftime(0), pending |-> <<HEADER>>]>>
    /\ last_rotation_time = 0
    /\ line_count = 0
    /\ log_dir = [n \in {Strftime(0)} |-> [rows |-> <<>>, ctime |-> 0]]
    /\ archive_dir = [n \in {} |-> 0]
    /\ pc = [t \in Threads |-> "idle"]
    /\ it = [t \in Threads |-> 0]
    /\ flushRet = [t \in Threads |-> "L129"]
    /\ stopRet = [t \in Threads |-> "idle"]
    /\ outcome = [t \in Threads |-> "none"]
    /\ appended = <<>>
    /\ rotations = 0
    /\ cpc = [c \in Conns |-> "new"]
    /\ attempt = [c \in Conns |-> 0]
    /\ payload = [c \in Conns |-> <<>>]
    /\ result = [c \in Conns |-> "none"]
    /\ c2s = [c \in Conns |-> <<>>]
    /\ s2c = [c \in Conns |-> <<>>]
    /\ raw_data = [c \in Conns |-> <<>>]
    /\ sclosed = [c \in Conns |-> FALSE]
    /\ running = TRUE
    /\ faults = 0

InitWith(configs) ==
    /\ InitStore(configs)
    /\ codec = [pc |-> "off", data |-> <<>>, raw |-> <<>>, back |-> <<>>]

Init == InitWith(Configs)

Next ==
    \/ CallLogReading
    \/ CallStop
    \/ MainStep
    \/ TickSecond
    \/ TickDay

Spec == Init /\ [][Next]_vars

\* ------------------------------------------------- the store on a failing disk
\* The single-threaded caller on a disk whose writes can fail at any time.
FaultConfigs == { Config(1, 0, 0, 0, 1), Config(2, 0, 0, 3, 1) }

MainFault == \E err \in StorageErrors : flush_buffer_raises(Main, err)

InitFault == InitWith(FaultConfigs)

NextFault ==
    \/ CallLogReading
    \/ CallStop
    \/ MainStep
    \/ MainFault

SpecFault == InitFault /\ [][NextFault]_vars

\* ------------------------------------------------------------ the server runs
\* Peers connect and send; every connection has its handler thread, which
\* runs into the shared Logger; the store is closed when all handlers are done.
ClientStep ==
    \E c \in Conns :
        \/ connect(c)
        \/ \E bytes \in Payloads : send(c, bytes)
        \/ send_L29(c)
        \/ send_L32(c)
        \/ send_timeout(c)

HandlerStep ==
    \E c \in Conns :
        \/ handle_client_L26(c)
        \/ handle_client_L32(c)
        \/ handle_client_L34(c)
        \/ handle_client_L36(c)
        \/ LoggerStep(c)

HandlersDone == \A c \in Conns : pc[c] = "closed"

FinalStop == HandlersDone /\ IsOpen /\ CallStop

InitNet == InitWith(NetConfigs)

NextNet ==
    \/ ClientStep
    \/ HandlerStep
    \/ FinalStop
    \/ MainStep

SpecNet == InitNet /\ [][NextNet]_vars

\* ------------------------------------------- the server on a failing disk
HandlerFault == \E c \in Conns : \E err \in StorageErrors : flush_buffer_raises(c, err)

NextServerFault ==
    \/ ClientStep
    \/ HandlerStep
    \/ HandlerFault

SpecServerFault == InitNet /\ [][NextServerFault]_vars

\* --------------------------------------- the listener and its connections
\* Peers connect, send frames or break off; the GUI stops the server.
TruncatingPeer == \E c \in Conns : \E bytes \in Truncations : peer_truncates(c, bytes)

NextServer ==
    \/ ClientStep
    \/ TruncatingPeer
    \/ HandlerStep
    \/ stop_server

SpecServer == InitNet /\ [][NextServer]_vars

\* ------------------------------------------------ the client and any peer
PeerClientStep ==
    \E c \in Conns :
        \/ connect_peer(c)
        \/ \E bytes \in Payloads : send(c, bytes)
        \/ send_L29(c)
        \/ send_L32(c)
        \/ send_timeout(c)

PeerStep ==
    \E c \in Conns :
        \/ \E bytes \in PeerReplies : peer_reply(c, bytes)
        \/ peer_close(c)

NextPeer ==
    \/ PeerClientStep
    \/ PeerStep

\* The store takes no part here; it keeps one configuration.
InitPeer == InitWith({Config(1, 0, 0, 0, 1)})

SpecPeer == InitPeer /\ [][NextPeer]_vars

\* --------------------------------------------------------- the codec at work
InitCodec ==
    /\ InitStore({Config(1, 0, 0, 0, 1)})
    /\ codec \in {[pc |-> "serialize", data |-> d, raw |-> <<>>, back |-> <<>>] : d \in Mappings}

NextCodec ==
    \/ client_serialize
    \/ client_deserialize

SpecCodec == InitCodec /\ [][NextCodec]_vars

\* ------------------------------------------------------------------ helpers
Range(seq) == {seq[i] : i \in DOMAIN seq}

CountIn(seq, x) == Cardinality({i \in DOMAIN seq : seq[i] = x})

\* The two sequences hold the same elements the same number of times.
SameBag(a, b) == \A x \in Range(a) \cup Range(b) : CountIn(a, x) = CountIn(b, x)

\* The rows of the Active Segment: those on disk, then those still held by
\* the file object.
ActiveRows == log_dir[current_file[1].name].rows \o current_file[1].pending

\* Every data row stored in a CSV file or an archive, header rows left out.
RECURSIVE DataRows(_, _)
DataRows(dir, names) ==
    IF names = {} THEN <<>>
    ELSE LET n == CHOOSE x \in names : TRUE
         IN (IF dir[n].rows = <<>> THEN <<>> ELSE Tail(dir[n].rows))
            \o DataRows(dir, names \ {n})

StoredRows == DataRows(log_dir, DOMAIN log_dir) \o DataRows(archive_dir, DOMAIN archive_dir)

FracOnly == \A i \in DOMAIN appended : appended[i].timestamp.usec # 0

\* No archive can have aged out of the retention window yet.
NothingExpired == clock <= cfg.retention_days * SecondsPerDay

\* The caller is between two calls and the store was closed by stop(): the
\* buffer was flushed and every file object's rows are on disk.
FlushedAndClosed == pc[Main] = "idle" /\ ~IsOpen /\ buffer = <<>>

\* The reading a connection's payload decodes to, <<>> when the frame is not
\* valid JSON or a field is missing or cannot be coerced.
SentReading(c) ==
    IF Deserialize(payload[c] \o <<NL>>) = <<>> THEN <<>>
    ELSE ParseFields(Deserialize(payload[c] \o <<NL>>)[1]).reading

\* The statements of Logger that change the buffer, the file or the counters.
LoggerPcs == {"L92", "L117", "L120", "L124", "L125", "L129", "L70", "L73", "L155",
              "L156", "L157"}

\* -------------------------------------------------------------------- claims
\* C1: the server writes ACK, and send() returns true, only after the reading
\* decoded from the connection's frame was passed to log_reading and accepted.
C1_AckOnlyAfterStore ==
    \A c \in Conns :
        (result[c] = "true" \/ s2c[c] # <<>>)
            => /\ outcome[c] = "returned"
               /\ SentReading(c) # <<>>
               /\ SentReading(c)[1] \in Range(appended)

\* C2: a frame that is not valid JSON, lacks a key or has a timestamp or value
\* that cannot be coerced gets no ACK, and send() returns false for it.
C2_BadFrameGetsNoAck ==
    \A c \in Conns :
        (payload[c] # <<>> /\ SentReading(c) = <<>>)
            => /\ s2c[c] = <<>>
               /\ result[c] # "true"
               /\ (cpc[c] = "done" /\ pc[c] = "closed") => result[c] = "false"

\* C3: when the handlers of concurrent connections append to the shared
\* store, every appended reading is on disk exactly once after the final
\* flush, under every interleaving.
C3_ConcurrentAppendsAllStored ==
    (HandlersDone /\ pc[Main] = "idle" /\ ~IsOpen /\ rotations = 0)
        => SameBag(StoredRows, [i \in DOMAIN appended |-> WriteRow(appended[i])])

\* C4: at no time are two threads inside the append, flush or rotate steps
\* of the Logger.
C4_LoggerMutationSerialized ==
    Cardinality({t \in Threads : pc[t] \in LoggerPcs}) <= 1

\* C5: rotation never loses a reading: after appends that include rotations,
\* once the buffer is flushed, a query over the full time range returns every
\* appended reading exactly once.  Stated for readings whose timestamps have
\* a fraction, while no archive is old enough to be pruned, after stop().
C5_RotationLosesNothing ==
    (FlushedAndClosed /\ rotations >= 1 /\ FracOnly /\ NothingExpired)
        => (~QueryAll.raised /\ SameBag(QueryAll.out, appended))

\* C6: no two rotations produce the same archive name: sealing a segment
\* never replaces an archive that exists already.
C6_ArchiveNamesNeverCollide ==
    [][(pc[Main] = "L155" /\ pc'[Main] = "L156" /\ Exists(log_dir, current_filename))
        => Cardinality(DOMAIN archive_dir') = Cardinality(DOMAIN archive_dir) + 1]_vars

\* C7: every reading flushed to a segment is stored with a microsecond
\* fraction in its timestamp text and is returned, with equal fields, by a
\* query whose range contains its timestamp and whose filter is its sensor.
C7_FlushedReadingIsQueryable ==
    \A i \in DOMAIN appended :
        LET r == appended[i]
            q == read_logs(r.timestamp, r.timestamp, <<r.sensor_id>>)
        IN (WriteRow(r) \in Range(StoredRows) /\ ~q.raised)
               => (WriteRow(r)[1].frac # <<>> /\ r \in Range(q.out))

\* C8: appends that cross no rotation threshold cause no rotation, and once
\* the buffer is flushed the query over the unbounded range returns exactly
\* the appended readings, in append order.
C8_QueryReturnsAppendsInOrder ==
    (pc[Main] = "idle" /\ rotations = 0 /\ buffer = <<>> /\ appended # <<>>)
        => QueryAll.out = appended

\* C9: the log_reading call whose flush brings line_count to
\* rotate_after_lines rotates, once: the check that sees the count reached
\* starts the rotation, the rotation ends the call and leaves line_count 0,
\* an empty buffer and an Active Segment that holds only the header, so that
\* the next reading is its first row; between calls the count of an open
\* store is below the threshold, whatever buffer_size is.
C9_LineThresholdRotatesOnce ==
    [][/\ (/\ pc[Main] = "L129" /\ IsOpen
           /\ cfg.rotate_after_lines # 0 /\ line_count >= cfg.rotate_after_lines)
            => (pc'[Main] = "L70" /\ stopRet'[Main] = "L155")
       /\ (pc[Main] = "L157")
            => /\ pc'[Main] = "idle"
               /\ rotations' = rotations + 1
               /\ line_count' = 0
               /\ buffer' = <<>>
               /\ IsOpen'
               /\ ActiveRows' = <<HEADER>>
       /\ (pc'[Main] = "idle" /\ IsOpen' /\ cfg.rotate_after_lines # 0)
            => line_count' < cfg.rotate_after_lines
       /\ (pc[Main] # "idle" /\ pc'[Main] = "idle")
            => rotations' <= rotations + 1
      ]_vars

\* C9 witness: with buffer_size 2 and rotate_after_lines 3 the fourth append
\* rotated once and left a fresh segment.
C9_Witness ==
    /\ cfg.buffer_size = 2 /\ cfg.rotate_after_lines = 3
    /\ pc[Main] = "idle" /\ Len(appended) = 4
    /\ rotations = 1 /\ line_count = 0 /\ buffer = <<>>
    /\ IsOpen /\ ActiveRows = <<HEADER>>
    /\ Cardinality(DOMAIN archive_dir) = 1

\* C10: archives older than retention_days are gone once a rotation has
\* completed, and no step of a rotation removes or replaces an archive that
\* is within the retention window.
C10_RetentionKeepsYoungArchives ==
    [][/\ (pc[Main] = "L157" /\ pc'[Main] = "idle")
            => \A n \in DOMAIN archive_dir' : ~Expired(archive_dir'[n], clock')
       /\ \A n \in DOMAIN archive_dir :
            ~Expired(archive_dir[n], clock)
                => (n \in DOMAIN archive_dir' /\ archive_dir'[n] = archive_dir[n])
      ]_vars

\* C11: when writerow or flush raises during a flush, the exception reaches
\* the caller of the Logger and the buffer holds what it held when the flush
\* started: no step of a flush before line 125 changes the buffer, and the
\* failing step leaves every reading in it for a later flush.
C11_FailedFlushKeepsBuffer ==
    [][/\ (pc[Main] \in {"L117", "L120", "L124"}) => buffer' = buffer
       /\ (pc[Main] \in {"L120", "L124"} /\ pc'[Main] = "idle")
            => (outcome'[Main] = "raised" /\ buffer' # <<>>)
      ]_vars

\* C11 witness: a flush has failed, the caller has control again and the
\* readings are still in the buffer of the open store.
C11_Witness ==
    /\ pc[Main] = "idle" /\ outcome[Main] = "raised"
    /\ IsOpen /\ buffer # <<>> /\ Len(buffer) >= cfg.buffer_size

\* C12: a query never aborts: in every state the caller can query the store
\* in, also right after the store was opened or rotated, read_logs over the
\* unbounded range completes without raising.
C12_QueryNeverAborts ==
    pc[Main] = "idle" => ~QueryAll.raised

\* The time ranges and sensor filters of the queries examined.
QueryRanges ==
    { <<DatetimeMin, DatetimeMax>>, <<TsWhole, TsWhole>>, <<TsFrac, TsFrac>>,
      <<TsWhole, TsFrac>>, <<DatetimeMin, TsWhole>> }

SensorFilters == { <<>>, <<"s1">>, <<"s2">> }

\* start <= t <= end, and the sensor filter when one is given.
Matches(r, qstart, qend, sensor_id) ==
    /\ DatetimeLe(qstart, r.timestamp)
    /\ DatetimeLe(r.timestamp, qend)
    /\ (sensor_id = <<>> \/ r.sensor_id = sensor_id[1])

\* The reading a flushed row was written for.
ReadingOfRow(row) == CHOOSE r \in InputReadings : WriteRow(r) = row

\* The flushed readings, file by file (CSV files before archives) and in
\* append order within a file.
FlushedReadings == [i \in DOMAIN StoredRows |-> ReadingOfRow(StoredRows[i])]

\* C13: read_logs(start, end, sensor_id) yields exactly the flushed readings
\* whose timestamp lies in [start, end], both bounds included, and whose
\* sensor is the filter's when one is given: those of the CSV files before
\* those of the archives, in append order within each file.  Stated for
\* readings whose timestamps have a fraction, whose rows the reader parses.
C13_QueryYieldsExactlyTheMatches ==
    (pc[Main] = "idle" /\ FracOnly) =>
        \A rng \in QueryRanges, f \in SensorFilters :
            read_logs(rng[1], rng[2], f).out
                = SelectSeq(FlushedReadings, LAMBDA r : Matches(r, rng[1], rng[2], f))

\* C14: send() ends after at most retries attempts, with True as soon as an
\* attempt received ACK and with False, never with an exception, when every
\* attempt failed through a socket error, a timeout or another response.
C14_SendReturnsBoolean ==
    \A c \in Conns :
        /\ attempt[c] <= Retries
        /\ cpc[c] = "done" => result[c] \in {"true", "false"}
        /\ (cpc[c] = "done" /\ attempt[c] < Retries) => result[c] = "true"

\* The handler of connection c waits in recv for bytes that have not come.
Blocked(c) == pc[c] = "L26" /\ c2s[c] = <<>>

\* C15: whatever the handlers of the other connections do, whether they
\* have failed, are inside the store or are still blocked in recv, the
\* accept loop accepts a connection that arrives and starts its handler.
C15_AcceptLoopNeverBlocked ==
    \A c \in Conns : cpc[c] = "new" => ENABLED connect(c)

\* C15 witness: one connection was accepted and served to the end while the
\* handler of another one is blocked in recv.
C15_Witness ==
    \E c, d \in Conns :
        /\ c # d
        /\ Blocked(c) /\ cpc[c] = "connected"
        /\ pc[d] = "closed" /\ result[d] = "true"

\* C16: once the listener was told to stop, the accept loop has ended and
\* the port is released: no connection is accepted any more.
C16_StopEndsAcceptLoop ==
    [][~running => \A c \in Conns : ~(cpc[c] = "new" /\ cpc'[c] = "connected")]_vars

\* The peer of connection c closed before a delimiter arrived.
Truncated(c) == c2s[c] # <<>> /\ c2s[c][Len(c2s[c])] = EOF

\* C17: when the peer closes before a newline has arrived, the handler
\* never enters the store and never writes ACK, and the recv that finds the
\* stream ended closes the connection with the buffer and the appended
\* readings as they were.
C17_TruncatedFrameIsDropped ==
    [][\A c \in Conns :
         Truncated(c) =>
            /\ s2c[c] = <<>> /\ outcome[c] = "none"
            /\ pc[c] \in {"L26", "closed"}
            /\ (pc[c] = "L26" /\ c2s[c] = <<EOF>> /\ pc'[c] # "L26")
                  => /\ pc'[c] = "closed" /\ sclosed'[c]
                     /\ s2c'[c] = <<>>
                     /\ appended' = appended /\ buffer' = buffer
      ]_vars

\* C17 witness: a handler has read part of a frame, found the stream ended
\* and closed the connection without an answer.
C17_Witness ==
    \E c \in Conns :
        /\ Truncated(c) /\ raw_data[c] # <<>>
        /\ pc[c] = "closed" /\ sclosed[c] /\ s2c[c] = <<>>

\* C18: when log_reading raises a storage error in a handler thread, the
\* handler reports it in its except clause, writes no ACK for the message
\* and closes the connection.
C18_StoreErrorGetsNoAck ==
    \A c \in Conns :
        outcome[c] = "raised"
            => /\ pc[c] \in {"L36", "closed"}
               /\ s2c[c] = <<>>
               /\ result[c] # "true"

\* The caller's stop() is running (not the stop() inside a rotation).
InStop ==
    /\ stopRet[Main] = "idle"
    /\ \/ pc[Main] \in {"L70", "L73"}
       \/ pc[Main] \in {"L117", "L120", "L124", "L125"} /\ flushRet[Main] = "L73"

\* C19: stop() returns with the file closed; when the store was open, the
\* buffer is empty and every row written is on disk (all appended readings,
\* as long as no rotation archived some); a stop() on a closed store changes
\* neither the buffer, the files nor any other field of the store, and
\* returns without raising.
C19_StopFlushesAndIsIdempotent ==
    [][/\ (pc[Main] = "L73" /\ stopRet[Main] = "idle")
            => /\ pc'[Main] = "idle" /\ outcome'[Main] = "returned"
               /\ ~IsOpen'
               /\ IsOpen
                    => /\ buffer' = <<>>
                       /\ log_dir'[current_file[1].name].rows = ActiveRows
                       /\ rotations = 0
                            => Tail(log_dir'[current_file[1].name].rows)
                                 = [i \in DOMAIN appended |-> WriteRow(appended[i])]
       /\ (InStop /\ ~IsOpen)
            => (logger_vars' = logger_vars /\ outcome'[Main] # "raised")
      ]_vars

\* C19 witness: a further stop() is at its end on a store that is closed
\* already and whose buffer holds a reading appended after the first stop().
C19_Witness ==
    /\ pc[Main] = "L73" /\ stopRet[Main] = "idle"
    /\ ~IsOpen /\ buffer # <<>>
    /\ \E n \in DOMAIN log_dir : Len(log_dir[n].rows) >= 2

\* C20: for every flat mapping d of strings to JSON values,
\* _deserialize(_serialize(d)) is d, and _serialize(d) is the one-line JSON
\* object text of d: ASCII bytes between "{" and "}", no line feed among
\* them, the keys in insertion order.
C20_CodecRoundTrip ==
    /\ codec.pc \in {"deserialize", "done"}
         => /\ Head(codec.raw) = "{" /\ codec.raw[Len(codec.raw)] = "}"
            /\ \A i \in DOMAIN codec.raw : codec.raw[i] \notin {LF, EACUTE, "0xC3", "0xA9"}
    /\ codec.pc = "done"
         => /\ codec.back = <<codec.data>>
            /\ [i \in DOMAIN codec.back[1] |-> codec.back[1][i][1]]
                 = [i \in DOMAIN codec.data |-> codec.data[i][1]]

\* C20 witness: a mapping of two items whose strings hold a line feed, a
\* quote and a backslash came back from the round trip.
C20_Witness ==
    /\ codec.pc = "done"
    /\ codec.data = << <<<<"n", LF>>, JStr(<<LF, QUOTE>>)>>, <<<<"a">>, JStr(<<BACKSLASH, "n">>)>> >>
    /\ codec.back = <<codec.data>>

\* C21: a rotation runs stop (flush, then close), _archive_current_file,
\* _clean_old_archives and start in this order, each once: the buffer is
\* empty and every row is on disk when the file is closed, the closed file
\* becomes an archive and leaves the log directory, the archives past
\* retention go, and only then is the fresh Active Segment opened.
C21_RotateStepsInOrder ==
    [][/\ (pc[Main] = "L129" /\ pc'[Main] # "idle")
            => (pc'[Main] = "L70" /\ stopRet'[Main] = "L155")
       /\ (pc[Main] = "L70" /\ stopRet[Main] = "L155")
            => pc'[Main] = (IF buffer # <<>> THEN "L117" ELSE "L73")
       /\ (pc[Main] = "L125" /\ flushRet[Main] = "L73")
            => (pc'[Main] = "L73" /\ buffer' = <<>>)
       /\ (pc[Main] = "L73" /\ stopRet[Main] = "L155")
            => /\ buffer = <<>> /\ IsOpen /\ ~IsOpen'
               /\ log_dir'[current_filename].rows = ActiveRows
               /\ pc'[Main] = "L155"
       /\ (pc[Main] = "L155")
            => /\ buffer = <<>> /\ ~IsOpen /\ Exists(log_dir, current_filename)
               /\ ~Exists(log_dir', current_filename)
               /\ \E n \in DOMAIN archive_dir' :
                     /\ archive_dir'[n].arcname = current_filename
                     /\ archive_dir'[n].rows = log_dir[current_filename].rows
               /\ pc'[Main] = "L156"
       /\ (pc[Main] = "L156")
            => /\ \A n \in DOMAIN archive_dir' : ~Expired(archive_dir'[n], clock)
               /\ ~IsOpen' /\ log_dir' = log_dir
               /\ pc'[Main] = "L157"
       /\ (pc[Main] = "L157")
            => /\ ~IsOpen /\ IsOpen' /\ ActiveRows' = <<HEADER>>
               /\ rotations' = rotations + 1
               /\ pc'[Main] = "idle"
       /\ (pc'[Main] = "L155" /\ pc[Main] # "L155") => pc[Main] = "L73"
       /\ (pc'[Main] = "L156" /\ pc[Main] # "L156") => pc[Main] = "L155"
       /\ (pc'[Main] = "L157" /\ pc[Main] # "L157") => pc[Main] = "L156"
      ]_vars

\* C21 witness: a rotation by age whose stop flushed a reading out of the
\* buffer has archived the old segment and is about to open the fresh one.
C21_Witness ==
    /\ pc[Main] = "L157" /\ cfg.rotate_every_hours # 0 /\ cfg.buffer_size = 2
    /\ buffer = <<>> /\ ~IsOpen /\ ~Exists(log_dir, current_filename)
    /\ \E n \in DOMAIN archive_dir : Len(archive_dir[n].rows) = 2

\* How far a handler has come: AWAIT_FRAME (line 26), DECODE (line 32),
\* STORE (inside the Logger), ACK or the except clause, CLOSE.
Stage(label) ==
    IF label = "idle" THEN 0
    ELSE IF label = "L26" THEN 1
    ELSE IF label = "L32" THEN 2
    ELSE IF label \in LoggerPcs THEN 3
    ELSE IF label \in {"L34", "L36"} THEN 4
    ELSE 5

\* A step of the handler of connection c.
HandlerStepOf(c) ==
    \/ handle_client_L26(c)
    \/ handle_client_L32(c)
    \/ handle_client_L34(c)
    \/ handle_client_L36(c)
    \/ LoggerStep(c)

\* C22: a handler moves forward through AWAIT_FRAME, DECODE, STORE, ACK and
\* CLOSE and never back: it decodes once, only that step appends a reading,
\* only the step that closes the connection writes an ACK (one), a closed
\* handler stays closed, and a handler that has its frame can always take
\* its next step until the connection is closed.
C22_OneRequestPerConnection ==
    [][/\ \A c \in Conns :
            /\ Stage(pc'[c]) >= Stage(pc[c])
            /\ (pc[c] = "L32" /\ pc'[c] # "L32") => Stage(pc'[c]) \in {3, 4}
            /\ (s2c'[c] # s2c[c] /\ s2c'[c] # <<>>)
                  => (pc[c] = "L34" /\ pc'[c] = "closed" /\ s2c'[c] = s2c[c] \o ACK)
            /\ (pc'[c] = "closed") => sclosed'[c]
            /\ (Stage(pc[c]) \in {2, 3, 4}) => ENABLED HandlerStepOf(c)
       /\ Len(appended') <= Len(appended) + 1
       /\ (appended' # appended) => \E c \in Conns : pc[c] = "L32" /\ pc'[c] = "L92"
      ]_vars

\* C22 witness: a handler has stored the reading of its frame, acknowledged
\* it and closed the connection while a second frame, re-sent by the client
\* after a timeout, was waiting on it.
C22_Witness ==
    \E c \in Conns :
        /\ pc[c] = "closed" /\ sclosed[c] /\ outcome[c] = "returned"
        /\ c2s[c] # <<>> /\ ~Truncated(c)
        /\ s2c[c] = ACK

\* C23: while the store is open, log_reading returns with fewer than
\* buffer_size readings in the buffer: the call that fills the buffer
\* flushes, the flush writes the entries in buffer order, one row and one
\* count each, all of them, puts them on disk and empties the buffer; the
\* line counter of an open store is the number of its data rows.
C23_BufferFlushedAtThreshold ==
    [][/\ IsOpen => line_count = Len(ActiveRows) - 1
       /\ (pc[Main] # "idle" /\ pc'[Main] = "idle" /\ IsOpen')
            => (outcome'[Main] = "returned" /\ Len(buffer') < cfg.buffer_size)
       /\ (pc[Main] = "L92" /\ IsOpen /\ Len(buffer) >= cfg.buffer_size)
            => (pc'[Main] = "L117" /\ flushRet'[Main] = "L129")
       /\ (pc[Main] = "L117" /\ IsOpen /\ buffer # <<>>)
            => (pc'[Main] = "L120" /\ it'[Main] = 0)
       /\ (pc[Main] = "L120" /\ pc'[Main] = "L120")
            => /\ ActiveRows' = Append(ActiveRows, WriteRow(buffer[it[Main] + 1]))
               /\ line_count' = line_count + 1
               /\ it'[Main] = it[Main] + 1
       /\ (pc[Main] = "L120" /\ pc'[Main] # "L120")
            => (pc'[Main] = "L124" /\ it[Main] = Len(buffer))
       /\ (pc[Main] = "L124")
            => /\ log_dir'[current_file[1].name].rows = ActiveRows
               /\ SubSeq(ActiveRows, Len(ActiveRows) - Len(buffer) + 1, Len(ActiveRows))
                    = [i \in DOMAIN buffer |-> WriteRow(buffer[i])]
               /\ pc'[Main] = "L125"
       /\ (pc[Main] = "L125") => (buffer' = <<>> /\ line_count' = line_count)
      ]_vars

\* C23 witness: with buffer_size 3 the third append has flushed three rows
\* in append order, counted them and left the buffer empty.
C23_Witness ==
    /\ cfg.buffer_size = 3 /\ cfg.rotate_after_lines = 0
    /\ pc[Main] = "idle" /\ outcome[Main] = "returned" /\ IsOpen
    /\ Len(appended) = 3 /\ buffer = <<>> /\ line_count = 3
    /\ log_dir[current_filename].rows
         = <<HEADER>> \o [i \in DOMAIN appended |-> WriteRow(appended[i])]

\* The rows WriteRow produces for the readings appended.
ReadingRows == {WriteRow(r) : r \in InputReadings}

\* The header comes first, once, and reading rows follow.
HeaderThenReadings(rows) ==
    /\ rows # <<>>
    /\ rows[1] = HEADER
    /\ \A i \in 2..Len(rows) : rows[i] \in ReadingRows

\* C24: the Active Segment (what is on disk and what the file object still
\* holds), every closed CSV file and every archive start with the header
\* row, have it once, and hold reading rows after it.
C24_HeaderFirstExactlyOnce ==
    /\ IsOpen => HeaderThenReadings(ActiveRows)
    /\ \A n \in DOMAIN log_dir :
         (~IsOpen \/ n # current_file[1].name) => HeaderThenReadings(log_dir[n].rows)
    /\ \A n \in DOMAIN archive_dir : HeaderThenReadings(archive_dir[n].rows)

\* C24 witness: after a rotation an archive with several reading rows and a
\* fresh Active Segment with a reading row exist side by side.
C24_Witness ==
    /\ rotations >= 1 /\ IsOpen /\ pc[Main] = "idle"
    /\ Len(log_dir[current_filename].rows) >= 2
    /\ \E n \in DOMAIN archive_dir : Len(archive_dir[n].rows) >= 3

\* stop() has closed the store: no file is open and the caller is not
\* between the stop() and the start() of a rotation.
Stopped == ~IsOpen /\ pc[Main] \notin {"L155", "L156", "L157"}

\* C26: once stop() has closed the store, no step of log_reading or stop
\* raises, opens a file, changes a CSV file or an archive, counts a line or
\* rotates; the buffer only grows, by the reading appended.
C26_AppendAfterCloseOnlyBuffers ==
    [][Stopped =>
         /\ ~IsOpen'
         /\ log_dir' = log_dir /\ archive_dir' = archive_dir
         /\ line_count' = line_count /\ rotations' = rotations
         /\ outcome'[Main] # "raised"
         /\ pc'[Main] \notin {"L120", "L124", "L125", "L155", "L156", "L157"}
         /\ \/ buffer' = buffer
            \/ /\ pc[Main] = "idle" /\ pc'[Main] = "L92"
               /\ buffer' = Append(buffer, appended'[Len(appended')])
      ]_vars

\* C26 witness: two readings appended after stop() sit in the buffer of
\* the closed store, beyond buffer_size, after a further stop().
C26_Witness ==
    /\ ~IsOpen /\ pc[Main] = "idle" /\ outcome[Main] = "returned"
    /\ cfg.buffer_size = 1 /\ Len(buffer) = 2 /\ stopRet[Main] = "idle"
    /\ flushRet[Main] = "L73"

\* The connections whose handler has passed its one decoded frame on.
Served == {c \in Conns : Stage(pc[c]) >= 3}

\* C25: a send() call stays on its connection: the attempts never go back
\* to connecting, the handler thread of the connection is never started a
\* second time and a closed socket stays closed; once the server has closed
\* the connection and no ACK is left to read, no later attempt returns true;
\* a frame is written only by an attempt, and however often it is re-sent,
\* the handlers have stored at most one reading per connection.
C25_OneSocketOneReadingPerSend ==
    [][/\ \A c \in Conns :
            /\ cpc[c] \in {"L29", "L32", "done"}
                 => cpc'[c] \in {"L29", "L32", "done"}
            /\ pc[c] # "idle" => pc'[c] \notin {"idle", "L26"} \/ pc[c] = "L26"
            /\ sclosed[c] => (sclosed'[c] /\ pc'[c] = "closed")
            /\ (sclosed[c] /\ s2c[c] = <<>> /\ result[c] # "true")
                 => (result'[c] # "true" /\ s2c'[c] = <<>>)
            /\ c2s'[c] # c2s[c] /\ Len(c2s'[c]) > Len(c2s[c])
                 => (cpc[c] = "L29" /\ ~sclosed[c])
       /\ Len(appended) <= Cardinality(Served)
       /\ Len(appended') <= Cardinality(Served')
      ]_vars

\* C25 witness: on one connection the frame was sent on every attempt, the
\* first attempt timed out, the handler stored one reading, acknowledged
\* and closed, and the re-sent frame is still unread; on the other the
\* server closed without ACK and the attempts that followed gave up.
C25_Witness ==
    \E c, d \in Conns :
        /\ cpc[c] = "done" /\ attempt[c] = Retries /\ result[c] = "true"
        /\ sclosed[c] /\ pc[c] = "closed"
        /\ c2s[c] = payload[c] \o <<NL>>
        /\ SentReading(c) # <<>>
        /\ appended = <<SentReading(c)[1]>>
        /\ cpc[d] = "done" /\ attempt[d] = Retries /\ result[d] = "false"
        /\ sclosed[d] /\ outcome[d] = "none"
====
